---- MODULE Spec2Model ----
(***************************************************************************)
(* A model of azure_maps_batch_geocode_and_merge.py: the row source        *)
(* (load_locations), the batch client (submit_batch, poll_batch,           *)
(* _merge_params_into_url, parse_results) and the result merger (the tail  *)
(* of main).                                                               *)
(*                                                                         *)
(* Values.  A spreadsheet cell that pandas reads as missing (NaN) and a    *)
(* Python None are both the value NULL: both are "isna".  Numbers are      *)
(* written as numerals in strings so that a result column holds one type.  *)
(* An address is a sequence of characters; the missing address cell is     *)
(* the one-element sequence NaNAddr.                                       *)
(***************************************************************************)
EXTENDS Integers, Sequences, FiniteSets, TLC

\* ------------------------------------------------------------------ bounds

\* Largest number of rows of the input sheet.
MaxRows == 3
\* Rows per batch in the model (the script's BATCH_SIZE is 100, line 40).
BATCH_SIZE == 2
\* The poll ceiling in the model, in seconds (poll_batch's default is 1800).
MaxTimeout == 4
\* Longest time, in seconds, one GET may take.
MaxLatency == 1
\* Longest raw query string of a continuation URL, in '&'-separated segments.
MaxSegs == 2
\* The redirects the session follows before it gives up (requests: 30).
MaxRedirects == 1

\* ------------------------------------------------------- program constants

ADDR_COL == "FullAddress"
LAT_COL == "Lat"
LON_COL == "Long"
STATUS_COL == "MatchStatus"
CONF_COL == "Confidence"
COUNTRY_SET == "US"
API_VERSION == "1.0"
\* The result columns, in the order the script loops over them.
ResultCols == <<LAT_COL, LON_COL, STATUS_COL, CONF_COL>>
ResultColSet == {ResultCols[k] : k \in 1..Len(ResultCols)}

\* poll_batch: min(sleep_s, 15), time.sleep(3), str(data)[:500], poll_interval=2
MaxTickSleep == 15
ShortSleep == 3
SnapshotLen == 500
DefaultPollInterval == 2

\* ------------------------------------------------------------------ values

\* NaN of pandas and None of Python.
NULL == "NaN"
\* The '' load_locations puts into a result column it creates.
EMPTY == ""
\* A value a result cell held before the run.
OLD == "old"
\* The missing (NaN) address cell.
NaNAddr == <<"NaN">>

Min(a, b) == IF a < b THEN a ELSE b
Max(a, b) == IF a > b THEN a ELSE b

\* pandas notna()
notna(v) == v # NULL

\* str(x) of an address cell: NaN becomes the text 'nan'.
AsStr(a) == IF a = NaNAddr THEN <<"n", "a", "n">> ELSE a

RECURSIVE LStrip(_)
LStrip(s) == IF s # <<>> /\ Head(s) = " " THEN LStrip(Tail(s)) ELSE s

RECURSIVE RStrip(_)
RStrip(s) ==
    IF s # <<>> /\ s[Len(s)] = " " THEN RStrip(SubSeq(s, 1, Len(s) - 1)) ELSE s

\* str.strip()
Strip(s) == RStrip(LStrip(s))

\* ---------------------------------------------------------------- the sheet

\* A row of the sheet; a column the sheet lacks holds no cell (ABSENT).
ABSENT == "<absent>"

SheetRow(addr, cells) ==
    [FullAddress |-> addr, Lat |-> cells[1], Long |-> cells[2],
     MatchStatus |-> cells[3], Confidence |-> cells[4]]

\* The cells of one row in the four result columns: a cell of a column in
\* `present` is taken from `pattern`, a column the sheet lacks has none.
RowCells(present, pattern) ==
    [k \in 1..Len(ResultCols) |->
        IF ResultCols[k] \in present THEN pattern[k] ELSE ABSENT]

\* Which result columns the input sheet already has.
Presences == {ResultColSet, {}, {LAT_COL, LON_COL}, {STATUS_COL, CONF_COL}}
\* The result cells of a row, per column: filled before the run, missing, or
\* holding a text pandas reads as missing.
Patterns ==
    {<<NULL, NULL, NULL, NULL>>, <<OLD, OLD, OLD, OLD>>,
     <<OLD, OLD, NULL, NULL>>, <<NULL, NULL, OLD, NULL>>,
     <<OLD, "N/A", NULL, NULL>>}

\* The sheets of n rows with these address cells, columns and cell patterns.
SheetsOf(n, addrs, presences, patterns) ==
    UNION {
        { [cols |-> present \cup {ADDR_COL},
           rows |-> [r \in 1..n |-> SheetRow(a[r], RowCells(present, p[r]))]] :
            a \in [1..n -> addrs], p \in [1..n -> patterns] } :
        present \in presences }

\* A sheet without the address column.
NoAddrSheet ==
    [cols |-> ResultColSet,
     rows |-> <<[FullAddress |-> <<ABSENT>>, Lat |-> NULL, Long |-> NULL,
                 MatchStatus |-> NULL, Confidence |-> NULL]>>]

\* --------------------------------------------------------- load_locations

\* pandas' default na_values: the texts pd.read_excel reads as missing (NaN).
STR_NA_VALUES ==
    {"", "#N/A", "#N/A N/A", "#NA", "-1.#IND", "-1.#QNAN", "-NaN", "-nan",
     "1.#IND", "1.#QNAN", "<NA>", "N/A", "NA", "NULL", "NaN", "None", "n/a",
     "nan", "null"}

\* The same texts as address cells, character by character.
NA_ADDRESSES ==
    {<<>>, <<"#", "N", "/", "A">>,
     <<"#", "N", "/", "A", " ", "N", "/", "A">>, <<"#", "N", "A">>,
     <<"-", "1", ".", "#", "I", "N", "D">>,
     <<"-", "1", ".", "#", "Q", "N", "A", "N">>, <<"-", "N", "a", "N">>,
     <<"-", "n", "a", "n">>, <<"1", ".", "#", "I", "N", "D">>,
     <<"1", ".", "#", "Q", "N", "A", "N">>, <<"<", "N", "A", ">">>,
     <<"N", "/", "A">>, <<"N", "A">>, <<"N", "U", "L", "L">>,
     <<"N", "a", "N">>, <<"N", "o", "n", "e">>, <<"n", "/", "a">>,
     <<"n", "a", "n">>, <<"n", "u", "l", "l">>}

\* The reader finds nothing in the cell: it is empty, holds '', or its column
\* is not in the sheet.
BlankRow(row) ==
    /\ row[ADDR_COL] \in {<<>>, NaNAddr, <<ABSENT>>}
    /\ \A c \in ResultColSet : row[c] \in {NULL, EMPTY, ABSENT}

\* The reader cuts the rows after the last row that holds a value; an empty
\* row followed by a row with a value stays.
RECURSIVE TrimTrailingRows(_)
TrimTrailingRows(rows) ==
    IF rows # <<>> /\ BlankRow(rows[Len(rows)])
    THEN TrimTrailingRows(SubSeq(rows, 1, Len(rows) - 1))
    ELSE rows

\* A row as the parser returns it: an empty cell and a cell whose text is in
\* na_values are missing (NaN); any other text is kept as it is.
NaConvert(row) ==
    [c \in DOMAIN row |->
        IF c = ADDR_COL
        THEN (IF row[c] \in NA_ADDRESSES THEN NaNAddr ELSE row[c])
        ELSE IF row[c] \in STR_NA_VALUES THEN NULL ELSE row[c]]

\* df = pd.read_excel(INPUT_FILE, sheet_name=SHEET_NAME, engine='openpyxl')
read_excel(sheet) ==
    LET data == TrimTrailingRows(sheet.rows)
    IN [r \in 1..Len(data) |-> NaConvert(data[r])]

\* for col in [...]: if col not in df.columns: df[col] = '' ; df['_rowid'] = range(len(df))
WithRowId(row, id) ==
    [FullAddress |-> row.FullAddress, Lat |-> row.Lat, Long |-> row.Long,
     MatchStatus |-> row.MatchStatus, Confidence |-> row.Confidence,
     _rowid |-> id]

EnsureCols(sheet, row) ==
    [c \in DOMAIN row |->
        IF c \in ResultColSet /\ c \notin sheet.cols THEN EMPTY ELSE row[c]]

AssignRowIds(n) == [r \in 1..n |-> r - 1]

LoadedFrame(sheet) ==
    LET rows == read_excel(sheet)
        ids == AssignRowIds(Len(rows))
    IN [r \in 1..Len(rows) |-> WithRowId(EnsureCols(sheet, rows[r]), ids[r])]

\* df[ADDR_COL].astype(str).str.strip() != ''
Eligible(row) == Strip(AsStr(row[ADDR_COL])) # <<>>

ToGeocode(frame) == SelectSeq(frame, Eligible)

\* --------------------------------------------------- build_batch_requests

build_batch_requests(rows) ==
    [k \in 1..Len(rows) |->
        [query |-> Strip(AsStr(rows[k][ADDR_COL])), countrySet |-> COUNTRY_SET]]

\* math.ceil(n / BATCH_SIZE)
CeilDiv(n, d) == (n + d - 1) \div d

\* Slices that step by one row less than their size, so that they overlap.
ChunkOverlapping(rows, b) ==
    SubSeq(rows, b * (BATCH_SIZE - 1) + 1,
           Min(b * (BATCH_SIZE - 1) + BATCH_SIZE, Len(rows)))

\* to_geocode.iloc[i * BATCH_SIZE : min((i + 1) * BATCH_SIZE, n)]
Chunk(rows, b) ==
    SubSeq(rows, b * BATCH_SIZE + 1, Min((b + 1) * BATCH_SIZE, Len(rows)))

\* ------------------------------------------------------------ HTTP values

\* The superscript two: str.isdigit() is true of it, int() rejects it.
SUP2 == "sup2"
DecimalChars == <<"0", "1", "2", "3", "4", "5", "6", "7", "8", "9">>
DecimalSet == {DecimalChars[k] : k \in 1..Len(DecimalChars)}
DigitVal(c) == (CHOOSE k \in 1..Len(DecimalChars) : DecimalChars[k] = c) - 1

\* A header the response does not carry: headers.get() gives None.
NoHeader == <<ABSENT>>

\* str.isdigit(): non-empty, every character a digit (decimal or superscript).
isdigit(s) == s # <<>> /\ \A k \in 1..Len(s) : s[k] \in DecimalSet \cup {SUP2}

\* Whether int(s) parses: every character is a decimal digit.
IntParses(s) == s # <<>> /\ \A k \in 1..Len(s) : s[k] \in DecimalSet

RECURSIVE IntOf(_)
IntOf(s) ==
    IF s = <<>> THEN 0
    ELSE 10 * IntOf(SubSeq(s, 1, Len(s) - 1)) + DigitVal(s[Len(s)])

\* `retry_after and retry_after.isdigit()`
HintUsed(h) == h # NoHeader /\ h # <<>> /\ isdigit(h)

\* The states of a JSON field that holds a string: NULL when the key is
\* absent or null.
RunningStates == {"Running", "Pending", "InProgress"}
DoneStates == {"Succeeded", "Completed"}
FailedStates == {"Failed", "Error"}

\* Python truthiness of a string-or-None field.
Truthy(v) == v # NULL /\ v # ""

\* The body no response carries (nothing returned yet).
NoBody == [kind |-> "none"]

\* A parsed JSON object of a poll response.  itemsKind: whether the key
\* 'batchItems' is absent, null or a list; summary.kind: absent, null, another
\* falsy value, a truthy value that is no object, or an object with `state`.
JsonObject(itemsKind, items, summary, status, reprLen) ==
    [kind |-> "dict", itemsKind |-> itemsKind, items |-> items,
     summary |-> summary, status |-> status, reprLen |-> reprLen]

\* A body r.json() cannot parse, and valid JSON that is no object (a list).
Unparsable == [kind |-> "unparsable"]
NonObject == [kind |-> "nondict"]

Response(code, retryAfter, body) ==
    [code |-> code, retryAfter |-> retryAfter, body |-> body]

\* ------------------------------------------------------------- poll_batch

\* `isinstance(data, dict) and 'batchItems' in data`
HasBatchItems(data) == data.kind = "dict" /\ data.itemsKind # "absent"

\* Whether line 167 raises AttributeError: data is no dict, or summary is a
\* truthy value without .get.
StateLookupRaises(data) ==
    data.kind # "dict" \/ data.summary.kind = "truthy"

\* (data.get('summary', {}) or {}).get('state') or data.get('status')
StateOf(data) ==
    LET s == IF data.summary.kind = "dict" THEN data.summary.state ELSE NULL
    IN IF Truthy(s) THEN s ELSE data.status

\* max(poll_interval, int(retry_after) if ... else poll_interval), then
\* time.sleep(min(sleep_s, 15))
TickSleep(floor, h) ==
    LET sleep_s == Max(floor, IF HintUsed(h) THEN IntOf(h) ELSE floor)
    IN Min(sleep_s, MaxTickSleep)

\* str(data)[:500]
Snapshot(data) == Min(data.reprLen, SnapshotLen)

\* The loop body with the throttling status handled as the 202 is.
BranchRetryThrottled(r) ==
    IF r.code = 202 \/ r.code = 429 THEN
        IF HintUsed(r.retryAfter) /\ ~IntParses(r.retryAfter)
        THEN "raise_int" ELSE "still_202"
    ELSE IF r.code >= 400 /\ r.code < 600 THEN "raise_for_status"
    ELSE IF r.body.kind = "unparsable" THEN "non_json"
    ELSE IF HasBatchItems(r.body) THEN "batchItems"
    ELSE IF StateLookupRaises(r.body) THEN "raise_attr"
    ELSE IF StateOf(r.body) \in RunningStates THEN
        IF HintUsed(r.retryAfter) /\ ~IntParses(r.retryAfter)
        THEN "raise_int" ELSE "running"
    ELSE IF StateOf(r.body) \in DoneStates THEN "done_state"
    ELSE IF StateOf(r.body) \in FailedStates THEN "failed_state"
    ELSE "unknown"

\* The loop body with the state field consulted before the results collection.
BranchStateFirst(r) ==
    IF r.code = 202 THEN
        IF HintUsed(r.retryAfter) /\ ~IntParses(r.retryAfter)
        THEN "raise_int" ELSE "still_202"
    ELSE IF r.code >= 400 /\ r.code < 600 THEN "raise_for_status"
    ELSE IF r.body.kind = "unparsable" THEN "non_json"
    ELSE IF StateLookupRaises(r.body) THEN "raise_attr"
    ELSE IF StateOf(r.body) \in RunningStates THEN
        IF HintUsed(r.retryAfter) /\ ~IntParses(r.retryAfter)
        THEN "raise_int" ELSE "running"
    ELSE IF StateOf(r.body) \in FailedStates THEN "failed_state"
    ELSE IF HasBatchItems(r.body) THEN "batchItems"
    ELSE IF StateOf(r.body) \in DoneStates THEN "done_state"
    ELSE "unknown"

\* The branch of the loop body a response takes; the labels are the code's.
Branch(r) ==
    IF r.code = 202 THEN
        IF HintUsed(r.retryAfter) /\ ~IntParses(r.retryAfter)
        THEN "raise_int" ELSE "still_202"
    ELSE IF r.code >= 400 /\ r.code < 600 THEN "raise_for_status"
    ELSE IF r.body.kind = "unparsable" THEN "non_json"
    ELSE IF HasBatchItems(r.body) THEN "batchItems"
    ELSE IF StateLookupRaises(r.body) THEN "raise_attr"
    ELSE IF StateOf(r.body) \in RunningStates THEN
        IF HintUsed(r.retryAfter) /\ ~IntParses(r.retryAfter)
        THEN "raise_int" ELSE "running"
    ELSE IF StateOf(r.body) \in DoneStates THEN "done_state"
    ELSE IF StateOf(r.body) \in FailedStates THEN "failed_state"
    ELSE "unknown"

\* The branches that sleep and then test the ceiling.
SleepOf(br, floor, r) ==
    CASE br \in {"still_202", "running"} -> TickSleep(floor, r.retryAfter)
      [] br \in {"non_json", "unknown"} -> ShortSleep
      [] OTHER -> 0

Sleeps(br) == br \in {"still_202", "running", "non_json", "unknown"}

\* `time.time() - start > timeout_sec`.  `now` is the whole seconds the loop
\* has slept and waited for answers since start. The clock is past that:
\* time.sleep returns after its time and the statements between take time,
\* so time.time() - start lies strictly between now and now + 1, and it is
\* above the ceiling, a whole number of seconds, as soon as now reaches it.
TimedOut(now, ceiling) == now + 1 > ceiling

\* One turn of the while loop after the GET answered r.  p is the loop's
\* state [elapsed, sleeps, n202], elapsed being the time since start when
\* the GET returned.
PollStep(p, r, floor, ceiling) ==
    LET br == Branch(r)
        slept == SleepOf(br, floor, r)
        now == p.elapsed + slept
        out ==
            CASE br = "batchItems" \/ br = "done_state" -> "READY"
              [] br = "failed_state" -> "BatchFailed"
              [] br = "raise_for_status" -> "HTTPError"
              [] br = "raise_attr" -> "AttributeError"
              [] br = "raise_int" -> "ValueError"
              [] OTHER -> IF TimedOut(now, ceiling) THEN "Timeout" ELSE "POLLING"
    IN [elapsed |-> now,
        sleeps |-> IF Sleeps(br) THEN p.sleeps + 1 ELSE p.sleeps,
        n202 |-> IF r.code = 202 THEN p.n202 + 1 ELSE p.n202,
        branch |-> br,
        lastSleep |-> slept,
        outcome |-> out,
        ret |-> IF out = "READY" THEN r.body ELSE NoBody,
        snapshot |-> IF out = "BatchFailed" THEN Snapshot(r.body) ELSE 0]

\* ---------------------------------------------------------- parse_results

\* An entry of batchItems.  kind: a JSON object or null; response: the key is
\* absent, null or an object; results: absent, an empty list or a list whose
\* first element is the best match; position: absent, null or an object.  A
\* field that is absent or null is NULL.
Entry(kind, response, results, position, lat, lon, type, entityType, score) ==
    [kind |-> kind, response |-> response, results |-> results,
     position |-> position, lat |-> lat, lon |-> lon, type |-> type,
     entityType |-> entityType, score |-> score]

\* `reslist` is non-empty: (item.get('response') or {}).get('results') or []
HasBest(e) == e.response = "obj" /\ e.results = "list"

\* item.get / pos.get on None raises AttributeError.
EntryRaises(e) == e.kind # "obj" \/ (HasBest(e) /\ e.position = "null")

NoMatchRecord ==
    [lat |-> NULL, lon |-> NULL, status |-> "No Match", confidence |-> NULL]

ParseEntry(e) ==
    IF HasBest(e) THEN
        [lat |-> IF e.position = "obj" THEN e.lat ELSE NULL,
         lon |-> IF e.position = "obj" THEN e.lon ELSE NULL,
         status |-> IF Truthy(e.type) THEN e.type
                    ELSE IF Truthy(e.entityType) THEN e.entityType
                    ELSE "Matched",
         confidence |-> e.score]
    ELSE NoMatchRecord

\* batch_result.get('batchItems') or []
ItemsOf(data) == IF data.itemsKind = "list" THEN data.items ELSE <<>>

\* [raised |-> an entry raised, out |-> the records otherwise]
parse_results(data) ==
    LET items == ItemsOf(data)
    IN IF \E k \in 1..Len(items) : EntryRaises(items[k])
       THEN [raised |-> TRUE, out |-> <<>>]
       ELSE [raised |-> FALSE,
             out |-> [k \in 1..Len(items) |-> ParseEntry(items[k])]]

\* ------------------------------------------------------ main: the merger

\* The results written to the rows from the last row backwards.
MapResultsReversed(rows, results) ==
    [k \in 1..Len(rows) |->
        IF k <= Len(results)
        THEN [rows[k] EXCEPT !.Lat = results[Len(results) + 1 - k].lat,
                             !.Long = results[Len(results) + 1 - k].lon,
                             !.MatchStatus = results[Len(results) + 1 - k].status,
                             !.Confidence = results[Len(results) + 1 - k].confidence]
        ELSE rows[k]]

\* geocoded = to_geocode.reset_index(drop=True); geocoded.at[idx, col] = r[...]
MapResults(rows, results) ==
    [k \in 1..Len(rows) |->
        IF k <= Len(results)
        THEN [rows[k] EXCEPT !.Lat = results[k].lat, !.Long = results[k].lon,
                             !.MatchStatus = results[k].status,
                             !.Confidence = results[k].confidence]
        ELSE rows[k]]

NewCells(g) ==
    [Lat |-> g.Lat, Long |-> g.Long, MatchStatus |-> g.MatchStatus,
     Confidence |-> g.Confidence]

NoNewCells ==
    [Lat |-> NULL, Long |-> NULL, MatchStatus |-> NULL, Confidence |-> NULL]

\* An inner join: a left row without a matching right row gives no row.
JoinRowInner(l, right) ==
    LET hits == SelectSeq(right, LAMBDA g : g._rowid = l._rowid)
    IN [k \in 1..Len(hits) |-> [old |-> l, new |-> NewCells(hits[k])]]

\* The rows a left row gives in a left join on _rowid: one per matching right
\* row, or one with missing new cells.
JoinRow(l, right) ==
    LET hits == SelectSeq(right, LAMBDA g : g._rowid = l._rowid)
    IN IF hits = <<>> THEN <<[old |-> l, new |-> NoNewCells]>>
       ELSE [k \in 1..Len(hits) |-> [old |-> l, new |-> NewCells(hits[k])]]

RECURSIVE LeftJoin(_, _)
LeftJoin(left, right) ==
    IF left = <<>> THEN <<>>
    ELSE JoinRow(Head(left), right) \o LeftJoin(Tail(left), right)

\* merged[col].where(merged[col].notna(), merged[col + '_new'])
Coalesce(old, new) == IF notna(old) THEN old ELSE new

\* The where/drop loop and the drop of _rowid.
Finish(j) ==
    [FullAddress |-> j.old.FullAddress,
     Lat |-> Coalesce(j.old.Lat, j.new.Lat),
     Long |-> Coalesce(j.old.Long, j.new.Long),
     MatchStatus |-> Coalesce(j.old.MatchStatus, j.new.MatchStatus),
     Confidence |-> Coalesce(j.old.Confidence, j.new.Confidence)]

Merged(frame, geocoded) ==
    LET joined == LeftJoin(frame, geocoded)
    IN [k \in 1..Len(joined) |-> Finish(joined[k])]

\* ----------------------------------------------------------- submit_batch

\* A header that holds a URL: absent (None), the empty string, or a URL, of
\* which the model keeps the raw query string as '&'-separated segments.
NoUrl == [kind |-> "none", query |-> <<>>]
EmptyUrl == [kind |-> "empty", query |-> <<>>]
Url(query) == [kind |-> "url", query |-> query]

\* The text of a URL before its '?': scheme, host and path.
UrlHead == "https://atlas.microsoft.com/b/op-1"

\* The value of a header the answer repeats: the values joined with ', '.
\* `prefix` is the text before the first '?' and `query` the segments after it.
Joined(prefix, query) == [kind |-> "joined", query |-> query, prefix |-> prefix]

\* Python truthiness of a header value: None and '' are falsy.
UrlTruthy(h) == h.kind \in {"url", "joined"}

\* The text of a header value before its first '?'.
Prefix(v) ==
    CASE v.kind = "url" -> <<UrlHead>>
      [] v.kind = "joined" -> v.prefix
      [] OTHER -> <<>>

\* The text of a query segment.
SegText(g) == g.key \o (IF g.eq THEN <<"=">> \o g.val ELSE <<>>)

\* The text a ', ' b read again as a URL: when a has a query, the text that
\* follows goes into a's last segment up to b's first '&'.
JoinTwo(a, b) ==
    LET tail == <<", ">> \o Prefix(b)
                    \o (IF b.query # <<>> THEN <<"?">> ELSE <<>>)
        rest == IF b.query = <<>> THEN <<>> ELSE Tail(b.query)
    IN IF a.query = <<>>
       THEN Joined(Prefix(a) \o <<", ">> \o Prefix(b), b.query)
       ELSE LET last == a.query[Len(a.query)]
                merged ==
                    IF last.eq
                    THEN [key |-> last.key, eq |-> TRUE,
                          val |-> last.val \o tail
                                    \o (IF b.query = <<>> THEN <<>>
                                        ELSE SegText(b.query[1]))]
                    ELSE IF b.query # <<>> /\ b.query[1].eq
                    THEN [key |-> last.key \o tail \o b.query[1].key,
                          eq |-> TRUE, val |-> b.query[1].val]
                    ELSE [key |-> last.key \o tail
                                    \o (IF b.query = <<>> THEN <<>>
                                        ELSE b.query[1].key),
                          eq |-> FALSE, val |-> <<>>]
            IN Joined(Prefix(a),
                      SubSeq(a.query, 1, Len(a.query) - 1) \o <<merged>> \o rest)

\* The values of a repeated header as one value.
RECURSIVE JoinAll(_)
JoinAll(vs) ==
    IF Len(vs) = 1 THEN vs[1]
    ELSE JoinTwo(JoinAll(SubSeq(vs, 1, Len(vs) - 1)), vs[Len(vs)])

\* The values of a list of headers.
Values(hs) == [n \in 1..Len(hs) |-> hs[n].value]

\* The POST's answer: the status and the two headers.
PostResponse(code, location, opLocation) ==
    [code |-> code, location |-> location, opLocation |-> opLocation]

\* A header of the answer as the server wrote it.
Header(name, value) == [name |-> name, value |-> value]

LocationNames == {"location", "Location", "LOCATION"}
OpLocationNames ==
    {"operation-location", "Operation-Location", "OPERATION-LOCATION"}

\* str.lower() of a header name.
Lower(name) ==
    CASE name \in LocationNames -> "location"
      [] name \in OpLocationNames -> "operation-location"
      [] OTHER -> name

\* A lookup that finds a header only under the very name asked for.
HeaderGetExact(hs, name) ==
    LET hits == SelectSeq(hs, LAMBDA h : h.name = name)
    IN IF hits = <<>> THEN NoUrl ELSE JoinAll(Values(hits))

\* resp.headers.get(name): resp.headers is the case-insensitive mapping of
\* requests; None when the header is absent, and the values joined with ', '
\* when the answer carries the header more than once.
HeaderGet(hs, name) ==
    LET hits == SelectSeq(hs, LAMBDA h : Lower(h.name) = Lower(name))
    IN IF hits = <<>> THEN NoUrl ELSE JoinAll(Values(hits))

\* Python's `a or b` on two header values.
Or(a, b) == IF UrlTruthy(a) THEN a ELSE b

\* The answer to a POST that carries these headers.
PostOf(code, hs) ==
    PostResponse(code,
                 Or(HeaderGet(hs, "location"), HeaderGet(hs, "Location")),
                 Or(HeaderGet(hs, "operation-location"),
                    HeaderGet(hs, "Operation-Location")))

\* The statuses requests takes for a redirect.
REDIRECT_STATI == {301, 302, 303, 307, 308}

\* The session follows the answer: it has a redirect status and a non-empty
\* Location header, to whose URL the next request goes.
IsRedirect(r) == r.code \in REDIRECT_STATI /\ UrlTruthy(r.location)

\* No answer: the session gave up on the redirects (TooManyRedirects).
GaveUp == PostResponse(0, NoUrl, NoUrl)

\* resp = session.post(...): `answers` holds the answer to the POST and the
\* answers to the requests the session sends after it, one per redirect it
\* follows. resp is the first answer that is no redirect; the session gives
\* up when it meets a redirect after having followed MaxRedirects of them.
session_post(answers) ==
    LET n == Min(Len(answers), MaxRedirects + 1)
    IN IF \E k \in 1..n : ~IsRedirect(answers[k])
       THEN answers[CHOOSE k \in 1..n :
                        /\ ~IsRedirect(answers[k])
                        /\ \A j \in 1..k - 1 : IsRedirect(answers[j])]
       ELSE GaveUp

\* headers.get('location') or ... or headers.get('Operation-Location')
OpLoc(r) == IF UrlTruthy(r.location) THEN r.location ELSE r.opLocation

\* "TooManyRedirects", "HTTPError", "MissingLocation" or "ok"
SubmitOutcome(answers) ==
    LET r == session_post(answers)
    IN IF r = GaveUp THEN "TooManyRedirects"
       ELSE IF r.code >= 400 /\ r.code < 600 THEN "HTTPError"
       ELSE IF ~UrlTruthy(OpLoc(r)) THEN "MissingLocation"
       ELSE "ok"

\* ------------------------------------------------- _merge_params_into_url

\* Text is a sequence of tokens: a plain piece of text, or one escape.  The
\* escape %FF is no valid UTF-8: parse_qsl decodes it to U+FFFD (REPL).
REPL == "U+FFFD"

\* urllib's unquote_plus on one token.
Unquote(t) ==
    CASE t = "%20" -> " "
      [] t = "+" -> " "
      [] t = "%2D" -> "-"
      [] t = "%FF" -> REPL
      [] t = "%EF%BF%BD" -> REPL
      [] t = "%2C+" -> ", "
      [] t = "%3F" -> "?"
      [] t = "%3D" -> "="
      [] t = "https%3A%2F%2Fatlas.microsoft.com%2Fb%2Fop-1" -> UrlHead
      [] OTHER -> t

\* urllib's quote_plus on one decoded token.
Quote(c) ==
    CASE c = " " -> "+"
      [] c = REPL -> "%EF%BF%BD"
      [] c = ", " -> "%2C+"
      [] c = "?" -> "%3F"
      [] c = "=" -> "%3D"
      [] c = UrlHead -> "https%3A%2F%2Fatlas.microsoft.com%2Fb%2Fop-1"
      [] OTHER -> c

UnquoteText(s) == [k \in 1..Len(s) |-> Unquote(s[k])]
QuoteText(s) == [k \in 1..Len(s) |-> Quote(s[k])]

\* A segment of the raw query: the text before the first '=', whether there
\* is an '=', and the text after it.
Seg(key, eq, val) == [key |-> key, eq |-> eq, val |-> val]

\* parse_qsl(query, keep_blank_values=True): an empty segment is skipped, a
\* segment without '=' has the value ''; names and values are unquoted.
RECURSIVE parse_qsl(_)
parse_qsl(q) ==
    IF q = <<>> THEN <<>>
    ELSE LET g == Head(q)
         IN IF g.key = <<>> /\ ~g.eq THEN parse_qsl(Tail(q))
            ELSE <<[k |-> UnquoteText(g.key), v |-> UnquoteText(g.val)]>>
                 \o parse_qsl(Tail(q))

HasKey(d, k) == \E n \in 1..Len(d) : d[n].k = k

\* d[k] = v on a Python dict kept as its items in insertion order.
DictSet(d, k, v) ==
    IF HasKey(d, k)
    THEN [n \in 1..Len(d) |-> IF d[n].k = k THEN [k |-> k, v |-> v] ELSE d[n]]
    ELSE Append(d, [k |-> k, v |-> v])

\* dict(pairs)
RECURSIVE DictOf(_, _)
DictOf(d, pairs) ==
    IF pairs = <<>> THEN d
    ELSE DictOf(DictSet(d, Head(pairs).k, Head(pairs).v), Tail(pairs))

\* The merge with every parameter written, present in the URL or not.
RECURSIVE AddAlways(_, _)
AddAlways(d, extra) ==
    IF extra = <<>> THEN d
    ELSE AddAlways(DictSet(d, Head(extra).k, Head(extra).v), Tail(extra))

\* for k, v in extra_params.items(): if k not in q: q[k] = v
RECURSIVE AddMissing(_, _)
AddMissing(d, extra) ==
    IF extra = <<>> THEN d
    ELSE AddMissing(IF HasKey(d, Head(extra).k) THEN d
                    ELSE DictSet(d, Head(extra).k, Head(extra).v),
                    Tail(extra))

\* urlencode(q)
urlencode(d) ==
    [n \in 1..Len(d) |-> Seg(QuoteText(d[n].k), TRUE, QuoteText(d[n].v))]

_merge_params_into_url(url, extra_params) ==
    LET new_query ==
            urlencode(AddMissing(DictOf(<<>>, parse_qsl(url.query)), extra_params))
    IN IF url.kind = "url" THEN Url(new_query)
       ELSE Joined(Prefix(url), new_query)

API_VERSION_KEY == <<"api", "-", "version">>
SUBSCRIPTION_KEY == <<"subscription", "-", "key">>

\* {'api-version': API_VERSION, 'subscription-key': key}
PollParams(key) ==
    <<[k |-> API_VERSION_KEY, v |-> <<API_VERSION>>],
      [k |-> SUBSCRIPTION_KEY, v |-> key]>>

\* =================================================================== state

VARIABLES
    pc,            \* where main is
    envKey,        \* os.environ.get('AZURE_MAPS_KEY')
    file,          \* the sheet of INPUT_FILE on disk
    backup,        \* the sheet of the backup file, NoFile before it is written
    df,            \* load_locations: the full frame, with _rowid
    to_geocode,    \* load_locations: the eligible rows
    i,             \* main: the batch index
    reqs,          \* main: the requests of the batch last posted
    op_loc,        \* main: the continuation URL of the batch
    all_results,   \* main: the accumulated records
    nparsed,       \* main: len(results) of the last parse, -1 if none returned
    merged,        \* main: the merged frame
    err,           \* the exception that ended the run or the loop, "none" if none
    posts,         \* the calls of session.post
    writes,        \* how often INPUT_FILE was written
    poll_interval, \* poll_batch: parameter
    timeout_sec,   \* poll_batch: parameter
    elapsed,       \* poll_batch: the whole seconds of time.time() - start
    pollPc,        \* poll_batch: "idle", "polling", "got" (r received), "returned"
    resp,          \* poll_batch: r, the response being handled
    poll_url,      \* poll_batch: the URL of the last GET
    branch,        \* poll_batch: the branch the last response took
    lastSleep,     \* poll_batch: seconds slept after the last response
    gets,          \* poll_batch: GETs issued in this loop
    sleeps,        \* poll_batch: time.sleep calls in this loop
    n202,          \* poll_batch: responses with status 202 handled in this loop
    ret,           \* poll_batch: the body returned
    snapshot,      \* poll_batch: length of the snapshot in 'Batch failed: ...'
    urls           \* a URL and its successive merges with the poll parameters

runVars ==
    <<pc, envKey, file, backup, df, to_geocode, i, reqs, op_loc, all_results,
      nparsed, merged, err, posts, writes>>
pollVars ==
    <<poll_interval, timeout_sec, elapsed, pollPc, resp, poll_url, branch,
      lastSleep, gets, sleeps, n202, ret, snapshot>>
vars == <<runVars, pollVars, urls>>

NoFile == [cols |-> {}, rows |-> <<>>]
NoKey == <<ABSENT>>
NoResp == Response(0, NoHeader, NoBody)

\* ------------------------------------------------------------ input sets

Latencies == 0..MaxLatency

Keys == {NoKey, <<>>, <<"K">>}

RunAddrs == {<<"a">>, <<" ", "b", " ">>, <<" ">>, NaNAddr}
RunSheets ==
    UNION {SheetsOf(n, RunAddrs, {ResultColSet}, {<<NULL, NULL, NULL, NULL>>}) :
            n \in 0..MaxRows}
    \cup {NoAddrSheet}

OpUrl == Url(<<Seg(<<"x">>, TRUE, <<"v">>)>>)
OpUrlWithVersion == Url(<<Seg(API_VERSION_KEY, TRUE, <<"2.0">>)>>)

\* The headers a POST's answer may carry: Location absent, empty or a URL,
\* Operation-Location absent or a URL, each under any spelling of its name.
HeaderSets ==
    {l \o o :
        l \in {<<>>} \cup {<<Header(n, v)>> : n \in LocationNames,
                                              v \in {EmptyUrl, OpUrl}},
        o \in {<<>>} \cup {<<Header(n, OpUrlWithVersion)>> : n \in OpLocationNames}}

\* The statuses of the answers: accepted, another success, a server error, a
\* redirect (the redirect statuses differ in the method of the request that
\* follows, not in what session.post returns).
PostCodes == {202, 200, 500, 307}

PostResponses == {PostOf(c, hs) : c \in PostCodes, hs \in HeaderSets}

\* The answers to one session.post: redirects the session follows, then the
\* answer it returns or the redirect it gives up on.
PostChains ==
    {ch \in UNION {[1..n -> PostResponses] : n \in 1..MaxRedirects + 1} :
        /\ \A k \in 1..Len(ch) - 1 : IsRedirect(ch[k])
        /\ IsRedirect(ch[Len(ch)]) => Len(ch) = MaxRedirects + 1}

\* Entries of batchItems: a full match, a match whose type is empty and whose
\* position lacks lat, no match, and a match with a null position.
HitFull == Entry("obj", "obj", "list", "obj", "47.6", "-122.3", "Point Address", NULL, "9.5")
HitEntity == Entry("obj", "obj", "list", "obj", NULL, "-71.0", "", "Municipality", NULL)
NoHit == Entry("obj", "obj", "empty", "absent", NULL, NULL, NULL, NULL, NULL)
NullPosition == Entry("obj", "obj", "list", "null", NULL, NULL, "Geography", NULL, "1.0")

NoSummary == [kind |-> "absent", state |-> NULL]
ItemsBody(items) == JsonObject("list", items, NoSummary, NULL, 40)
StateBody(status) == JsonObject("absent", <<>>, NoSummary, status, 40)

SeqsUpTo(S, n) == UNION {[1..m -> S] : m \in 0..n}

\* The batchItems lists answered to a batch of n requests: up to n + 1
\* entries that parse, or matches the last of which has a null position.
RunItemLists(n) ==
    SeqsUpTo({HitFull, NoHit}, n + 1)
    \cup {[k \in 1..m |-> IF k = m THEN NullPosition ELSE HitFull] : m \in 1..n + 1}

\* What a GET may answer while main polls a batch of n requests.
RunResponses(n) ==
    {Response(200, NoHeader, ItemsBody(items)) : items \in RunItemLists(n)}
    \cup {Response(200, NoHeader, b) :
            b \in {Unparsable, NonObject, StateBody("Running"),
                   StateBody("Succeeded"), StateBody("Failed"), StateBody(NULL)}}
    \cup {Response(202, h, Unparsable) : h \in {NoHeader, <<SUP2>>}}
    \cup {Response(500, NoHeader, Unparsable),
          Response(429, <<"5">>, StateBody("Running"))}

\* ================================================================= actions

\* The state before main runs, on this sheet with this key.
InitRun(key, sheet) ==
    /\ pc = "load_key"
    /\ envKey = key
    /\ file = sheet
    /\ backup = NoFile
    /\ df = <<>>
    /\ to_geocode = <<>>
    /\ i = 0
    /\ reqs = <<>>
    /\ op_loc = NoUrl
    /\ all_results = <<>>
    /\ nparsed = -1
    /\ merged = <<>>
    /\ err = "none"
    /\ posts = 0
    /\ writes = 0

\* poll_batch is entered: start = time.time().
EnterPoll ==
    /\ elapsed' = 0
    /\ pollPc' = "polling"
    /\ resp' = NoResp
    /\ poll_url' = NoUrl
    /\ branch' = "none"
    /\ lastSleep' = 0
    /\ gets' = 0
    /\ sleeps' = 0
    /\ n202' = 0
    /\ ret' = NoBody
    /\ snapshot' = 0

PollIdle ==
    /\ elapsed = 0
    /\ pollPc = "idle"
    /\ resp = NoResp
    /\ poll_url = NoUrl
    /\ branch = "none"
    /\ lastSleep = 0
    /\ gets = 0
    /\ sleeps = 0
    /\ n202 = 0
    /\ ret = NoBody
    /\ snapshot = 0

\* The exception is recorded and main goes on to the merge.
RaiseAndGoOn(e) == pc' = "merge" /\ err' = e

\* An uncaught exception ends the run.
Raise(e) == pc' = "failed" /\ err' = e

\* load_key without the test of the key.
load_key_unchecked ==
    /\ pc = "load_key"
    /\ pc' = "load_locations" /\ err' = err
    /\ UNCHANGED <<envKey, file, backup, df, to_geocode, i, reqs, op_loc,
                   all_results, nparsed, merged, posts, writes>>
    /\ UNCHANGED <<pollVars, urls>>

\* key = load_key()
load_key ==
    /\ pc = "load_key"
    /\ IF envKey = NoKey \/ envKey = <<>>
       THEN Raise("ConfigError")
       ELSE pc' = "load_locations" /\ err' = err
    /\ UNCHANGED <<envKey, file, backup, df, to_geocode, i, reqs, op_loc,
                   all_results, nparsed, merged, posts, writes>>
    /\ UNCHANGED <<pollVars, urls>>

\* df, to_geocode = load_locations(); if to_geocode.empty: return
load_locations ==
    /\ pc = "load_locations"
    /\ IF ADDR_COL \notin file.cols
       THEN Raise("SchemaError") /\ UNCHANGED <<df, to_geocode>>
       ELSE /\ df' = LoadedFrame(file)
            /\ to_geocode' = ToGeocode(df')
            /\ pc' = IF to_geocode' = <<>> THEN "done" ELSE "submit"
            /\ err' = err
    /\ UNCHANGED <<envKey, file, backup, i, reqs, op_loc, all_results, nparsed,
                   merged, posts, writes>>
    /\ UNCHANGED <<pollVars, urls>>

\* chunk = to_geocode.iloc[start:end]; reqs = build_batch_requests(chunk);
\* op_loc = submit_batch(session, key, reqs), then poll_batch is entered.
submit_batch(chains) ==
    /\ pc = "submit"
    /\ \E answers \in chains :
        /\ reqs' = build_batch_requests(Chunk(to_geocode, i))
        /\ posts' = posts + 1
        /\ IF SubmitOutcome(answers) = "ok"
           THEN /\ op_loc' = OpLoc(session_post(answers))
                /\ pc' = "poll"
                /\ err' = err
                /\ EnterPoll
                /\ UNCHANGED <<poll_interval, timeout_sec>>
           ELSE /\ Raise(SubmitOutcome(answers))
                /\ UNCHANGED <<op_loc, pollVars>>
    /\ UNCHANGED <<envKey, file, backup, df, to_geocode, i, all_results,
                   nparsed, merged, writes, urls>>

\* The loop's state as PollStep reads it, the GET having lasted l seconds.
LoopState(l) ==
    [elapsed |-> elapsed + l, sleeps |-> sleeps, n202 |-> n202]

\* The loop's variables after a turn that gave st.
LoopUpdate(st) ==
    /\ elapsed' = st.elapsed
    /\ sleeps' = st.sleeps
    /\ n202' = st.n202
    /\ branch' = st.branch
    /\ lastSleep' = st.lastSleep
    /\ snapshot' = st.snapshot

\* The exceptions poll_batch raises, by outcome.
PollError(outcome) == outcome \notin {"POLLING", "READY"}

\* The loop body with the length check skipped when nothing was parsed.
AfterReadyUnlessEmpty(body) ==
    LET res == parse_results(body)
    IN IF res.raised THEN
            /\ Raise("AttributeError")
            /\ nparsed' = -1
            /\ UNCHANGED <<all_results, i>>
       ELSE IF res.out # <<>> /\ Len(res.out) # Len(Chunk(to_geocode, i)) THEN
            /\ Raise("ResultCountMismatch")
            /\ nparsed' = Len(res.out)
            /\ UNCHANGED <<all_results, i>>
       ELSE /\ all_results' = all_results \o res.out
            /\ nparsed' = Len(res.out)
            /\ i' = i + 1
            /\ pc' = IF i + 1 < CeilDiv(Len(to_geocode), BATCH_SIZE)
                     THEN "submit" ELSE "merge"
            /\ err' = err

\* results = parse_results(batch_json); the length check; all_results.extend
AfterReady(body) ==
    LET res == parse_results(body)
    IN IF res.raised THEN
            /\ Raise("AttributeError")
            /\ nparsed' = -1
            /\ UNCHANGED <<all_results, i>>
       ELSE IF Len(res.out) # Len(Chunk(to_geocode, i)) THEN
            /\ Raise("ResultCountMismatch")
            /\ nparsed' = Len(res.out)
            /\ UNCHANGED <<all_results, i>>
       ELSE /\ all_results' = all_results \o res.out
            /\ nparsed' = Len(res.out)
            /\ i' = i + 1
            /\ pc' = IF i + 1 < CeilDiv(Len(to_geocode), BATCH_SIZE)
                     THEN "submit" ELSE "merge"
            /\ err' = err

\* One turn of poll_batch's loop inside main, and, when it returns, the rest
\* of main's loop body.
poll_batch(answers, latencies) ==
    /\ pc = "poll"
    /\ pollPc = "polling"
    /\ \E r \in answers, l \in latencies :
        LET st == PollStep(LoopState(l), r, poll_interval, timeout_sec)
        IN /\ LoopUpdate(st)
           /\ gets' = gets + 1
           /\ poll_url' = _merge_params_into_url(op_loc, PollParams(envKey))
           /\ resp' = r
           /\ ret' = st.ret
           /\ IF st.outcome = "POLLING" THEN
                   /\ pollPc' = "polling"
                   /\ UNCHANGED <<pc, err, all_results, nparsed, i>>
              ELSE IF st.outcome = "READY" THEN
                   /\ pollPc' = "idle"
                   /\ AfterReady(st.ret)
              ELSE /\ pollPc' = "idle"
                   /\ Raise(st.outcome)
                   /\ UNCHANGED <<all_results, nparsed, i>>
    /\ UNCHANGED <<envKey, file, backup, df, to_geocode, reqs, op_loc, merged,
                   posts, writes, poll_interval, timeout_sec, urls>>

\* geocoded = ...; merged = df.merge(...); the where/drop loop
merge ==
    /\ pc = "merge"
    /\ merged' = Merged(df, MapResults(to_geocode, all_results))
    /\ pc' = "backup"
    /\ UNCHANGED <<envKey, file, backup, df, to_geocode, i, reqs, op_loc,
                   all_results, nparsed, err, posts, writes>>
    /\ UNCHANGED <<pollVars, urls>>

\* backup = backup_file(INPUT_FILE)
backup_file ==
    /\ pc = "backup"
    /\ backup' = file
    /\ pc' = "write"
    /\ UNCHANGED <<envKey, file, df, to_geocode, i, reqs, op_loc, all_results,
                   nparsed, merged, err, posts, writes>>
    /\ UNCHANGED <<pollVars, urls>>

\* merged.to_excel(writer, sheet_name=SHEET_NAME, index=False)
write_excel ==
    /\ pc = "write"
    /\ file' = [cols |-> file.cols \cup ResultColSet, rows |-> merged]
    /\ writes' = writes + 1
    /\ pc' = "done"
    /\ UNCHANGED <<envKey, backup, df, to_geocode, i, reqs, op_loc,
                   all_results, nparsed, merged, err, posts>>
    /\ UNCHANGED <<pollVars, urls>>

\* ------------------------------------------------------ the whole run

Init ==
    /\ \E key \in Keys, sheet \in RunSheets : InitRun(key, sheet)
    /\ poll_interval = DefaultPollInterval
    /\ timeout_sec = MaxTimeout
    /\ PollIdle
    /\ urls = <<>>

\* In the run every GET is answered within the second (the clock still moves
\* on, see TimedOut); GETs that last longer are in SpecPoll.
Next ==
    \/ load_key
    \/ load_locations
    \/ submit_batch(PostChains)
    \/ poll_batch(RunResponses(Len(reqs)), {0})
    \/ merge
    \/ backup_file
    \/ write_excel

Spec == Init /\ [][Next]_vars

\* ------------------------------------- a run in which every batch succeeds

MaxMergeRows == 2

\* Address cells: text, the empty string, blanks only, a text of na_values.
MergeAddrs == {<<"a">>, <<>>, <<" ">>, <<"N", "A">>}
MergeSheets ==
    UNION {SheetsOf(n, MergeAddrs, Presences, Patterns) : n \in 0..MaxMergeRows}

OkPosts == {<<PostResponse(202, OpUrl, NoUrl)>>}

\* The first GET answers 200 with one entry that parses per request.
OkResponses(n) ==
    {Response(200, NoHeader, ItemsBody(items)) :
        items \in [1..n -> {HitFull, HitEntity, NoHit}]}

InitMerge ==
    /\ \E sheet \in MergeSheets : InitRun(<<"K">>, sheet)
    /\ poll_interval = DefaultPollInterval
    /\ timeout_sec = MaxTimeout
    /\ PollIdle
    /\ urls = <<>>

NextMerge ==
    \/ load_key
    \/ load_locations
    \/ submit_batch(OkPosts)
    \/ poll_batch(OkResponses(Len(reqs)), {0})
    \/ merge
    \/ backup_file
    \/ write_excel

SpecMerge == InitMerge /\ [][NextMerge]_vars

\* ------------------------------------------------- poll_batch on its own

\* session.get(poll_url, timeout=60): the GET lasts l seconds and answers r.
PollGet(answers, latencies) ==
    /\ pc = "poll"
    /\ pollPc = "polling"
    /\ \E r \in answers, l \in latencies :
        /\ resp' = r
        /\ elapsed' = elapsed + l
    /\ gets' = gets + 1
    /\ poll_url' = _merge_params_into_url(op_loc, PollParams(envKey))
    /\ pollPc' = "got"
    /\ UNCHANGED <<runVars, urls, poll_interval, timeout_sec, branch,
                   lastSleep, sleeps, n202, ret, snapshot>>

\* The rest of the loop body: r is handled, the loop goes on, returns or raises.
PollHandle ==
    /\ pc = "poll"
    /\ pollPc = "got"
    /\ LET st == PollStep(LoopState(0), resp, poll_interval, timeout_sec)
       IN /\ LoopUpdate(st)
          /\ ret' = st.ret
          /\ pollPc' = IF st.outcome = "POLLING" THEN "polling" ELSE "returned"
          /\ err' = IF PollError(st.outcome) THEN st.outcome ELSE err
    /\ resp' = NoResp
    /\ UNCHANGED <<pc, envKey, file, backup, df, to_geocode, i, reqs, op_loc,
                   all_results, nparsed, merged, posts, writes>>
    /\ UNCHANGED <<urls, poll_interval, timeout_sec, poll_url, gets>>

RetryAfters ==
    {NoHeader, <<>>, <<"0">>, <<"5">>, <<"1", "6">>, <<"x">>, <<SUP2>>}

Summaries ==
    {[kind |-> k, state |-> NULL] : k \in {"absent", "null", "falsy", "truthy"}}
    \cup {[kind |-> "dict", state |-> s] :
            s \in {NULL, "", "Pending", "Succeeded", "Failed", "Queued"}}

Statuses ==
    {NULL, "", "Queued"} \cup RunningStates \cup DoneStates \cup FailedStates

ReprLens == {40, SnapshotLen + 1}

PollBodies ==
    {Unparsable, NonObject}
    \cup {JsonObject(ik, IF ik = "list" THEN <<HitFull>> ELSE <<>>, s, st, n) :
            ik \in {"absent", "null", "list"}, s \in Summaries,
            st \in Statuses, n \in ReprLens}

\* The bodies a 202 carries: none, results, a failure report.
Bodies202 ==
    {Unparsable, ItemsBody(<<HitFull>>), StateBody("Failed")}

PollResponses ==
    {Response(202, h, b) : h \in RetryAfters, b \in Bodies202}
    \cup {Response(200, h, b) : h \in RetryAfters, b \in PollBodies}
    \cup {Response(c, h, Unparsable) : c \in {404, 429, 500}, h \in {NoHeader, <<"5">>}}

PollIntervals == {1, DefaultPollInterval, MaxTickSleep + 1}

InitPoll ==
    /\ pc = "poll"
    /\ envKey = <<"K">>
    /\ file = NoFile
    /\ backup = NoFile
    /\ df = <<>>
    /\ to_geocode = <<>>
    /\ i = 0
    /\ reqs = <<>>
    /\ op_loc = OpUrl
    /\ all_results = <<>>
    /\ nparsed = -1
    /\ merged = <<>>
    /\ err = "none"
    /\ posts = 1
    /\ writes = 0
    /\ poll_interval \in PollIntervals
    /\ timeout_sec = MaxTimeout
    /\ elapsed = 0
    /\ pollPc = "polling"
    /\ resp = NoResp
    /\ poll_url = NoUrl
    /\ branch = "none"
    /\ lastSleep = 0
    /\ gets = 0
    /\ sleeps = 0
    /\ n202 = 0
    /\ ret = NoBody
    /\ snapshot = 0
    /\ urls = <<>>

NextPoll ==
    \/ PollGet(PollResponses, Latencies)
    \/ PollHandle

SpecPoll == InitPoll /\ [][NextPoll]_vars

\* ------------------------------------ _merge_params_into_url on its own

\* How often the parameters are merged into the same URL.
MaxMerges == 2

SegKeys ==
    {API_VERSION_KEY, <<"api", "%2D", "version">>, SUBSCRIPTION_KEY, <<"x">>}
SegVals == {<<>>, <<"v">>, <<"%20">>, <<"%FF">>}
Segs ==
    {Seg(k, TRUE, v) : k \in SegKeys, v \in SegVals}
    \cup {Seg(k, FALSE, <<>>) : k \in SegKeys \cup {<<>>}}

Urls == {Url(q) : q \in SeqsUpTo(Segs, MaxSegs)}

InitUrl ==
    /\ pc = "url"
    /\ envKey \in {<<"K">>, <<"K", " ">>}
    /\ file = NoFile
    /\ backup = NoFile
    /\ df = <<>>
    /\ to_geocode = <<>>
    /\ i = 0
    /\ reqs = <<>>
    /\ op_loc = NoUrl
    /\ all_results = <<>>
    /\ nparsed = -1
    /\ merged = <<>>
    /\ err = "none"
    /\ posts = 0
    /\ writes = 0
    /\ poll_interval = DefaultPollInterval
    /\ timeout_sec = MaxTimeout
    /\ PollIdle
    /\ \E u \in Urls : urls = <<u>>

\* poll_url = _merge_params_into_url(last URL, {...})
MergeParams ==
    /\ pc = "url"
    /\ Len(urls) <= MaxMerges
    /\ urls' = Append(urls, _merge_params_into_url(urls[Len(urls)],
                                                   PollParams(envKey)))
    /\ UNCHANGED <<runVars, pollVars>>

NextUrl == MergeParams

SpecUrl == InitUrl /\ [][NextUrl]_vars

\* ================================================================== claims

\* main has computed `merged`.
MergeDone == pc \in {"backup", "write", "done"} /\ to_geocode # <<>>

\* A result cell that is empty or unset: a missing cell of the input, or the
\* '' of a column load_locations created.
EmptyCell(v) == v = NULL \/ v = EMPTY

\* The field of a parsed record that goes into a result column.
ResultField(rec, col) ==
    CASE col = LAT_COL -> rec.lat
      [] col = LON_COL -> rec.lon
      [] col = STATUS_COL -> rec.status
      [] col = CONF_COL -> rec.confidence

\* The position in df of the k-th submitted row.
RowOf(k) == to_geocode[k]._rowid + 1

EmptyAddress(row) == row[ADDR_COL] = NaNAddr \/ Strip(row[ADDR_COL]) = <<>>

FullyPopulated(row) == \A col \in ResultColSet : ~EmptyCell(row[col])

\* C2: every result cell that was non-empty before the run is the same after
\* the merge, whatever result came back for its row; a row with an empty
\* address and a row already fully populated keep all their result cells.
C2_SetCellsAndUnsubmittedRowsKept ==
    MergeDone =>
        \A r \in 1..Len(df) : \A col \in ResultColSet :
            (~EmptyCell(df[r][col]) \/ EmptyAddress(df[r]) \/ FullyPopulated(df[r]))
                => merged[r][col] = df[r][col]

\* C3: the merged table has as many rows as the original table and the rows
\* are the original rows in their order (none duplicated, none dropped); the
\* row identifiers the join matches on are unique, and the sheet written has
\* the merged rows.
C3_RowCountAndOrderKept ==
    /\ \A a, b \in 1..Len(df) : df[a]._rowid = df[b]._rowid => a = b
    /\ MergeDone =>
        /\ Len(merged) = Len(df)
        /\ \A k \in 1..Len(df) : merged[k].FullAddress = df[k].FullAddress
        /\ Len(merged) = Len(read_excel(backup)) \/ pc = "backup"
        /\ pc = "done" => file.rows = merged

\* A finished run over a table of MaxRows distinct rows of which one was not
\* submitted.
C3_Witness ==
    /\ pc = "done" /\ writes = 1
    /\ Len(df) = MaxRows
    /\ Len(to_geocode) = MaxRows - 1
    /\ Len(merged) = MaxRows
    /\ df[1].FullAddress # df[2].FullAddress

\* The step is a poll turn of main's loop that came back READY.
ReadyTurn ==
    /\ pc = "poll"
    /\ gets' = gets + 1
    /\ branch' \in {"batchItems", "done_state"}

\* C4: the results of a READY response are appended to all_results only if
\* as many records were parsed as the batch has requests; on every other
\* READY response (nparsed is -1 when parsing returned no list) the run fails
\* with the result-count-mismatch error, no further batch is submitted and no
\* file is written. So after i accepted batches all_results has as many
\* records as those batches have rows.
C4_CountCheck ==
    /\ [](Len(all_results) = Min(i * BATCH_SIZE, Len(to_geocode)))
    /\ [](err = "ResultCountMismatch" =>
            /\ pc = "failed"
            /\ writes = 0 /\ backup = NoFile
            /\ posts = i + 1
            /\ nparsed # Len(reqs))
    /\ [][/\ all_results' # all_results =>
                /\ ReadyTurn
                /\ nparsed' = Len(reqs)
                /\ Len(all_results') = Len(all_results) + Len(reqs)
                /\ i' = i + 1
          /\ (ReadyTurn /\ nparsed' # Len(reqs)) =>
                /\ err' = "ResultCountMismatch"
                /\ pc' = "failed"
                /\ all_results' = all_results /\ i' = i
          /\ (ReadyTurn /\ nparsed' = Len(reqs)) =>
                /\ err' = "none"
                /\ Len(all_results') = Len(all_results) + Len(reqs)
          /\ pc = "failed" => (posts' = posts /\ file' = file)]_vars

\* ------------------------------------------------- claims on poll_batch

\* poll_batch has ended: it returned a body or raised.
PollReturned == pollPc = "returned"
ReturnedReady == PollReturned /\ err = "none" /\ ret # NoBody

\* The loop is about to handle the response of the GET it just made.
Handling == pc = "poll" /\ pollPc = "got"

\* The turn sleeps and the loop goes on, unless the ceiling is passed.
StaysPolling ==
    /\ sleeps' = sleeps + 1
    /\ elapsed' = elapsed + lastSleep'
    /\ ret' = NoBody
    /\ IF TimedOut(elapsed', timeout_sec)
       THEN pollPc' = "returned" /\ err' = "Timeout"
       ELSE pollPc' = "polling" /\ err' = err

\* A success status: the response is not a 202 and raise_for_status passes.
Success(r) == r.code # 202 /\ r.code < 400

\* The parsed body holds the results collection.
WithItems(data) == data.kind = "dict" /\ data.itemsKind # "absent"

\* The state field of a parsed body: summary.state when summary is an object
\* whose state is non-empty, else the top-level status; none when the body is
\* not an object.
StateField(data) ==
    IF data.kind # "dict" THEN NULL
    ELSE IF data.summary.kind = "dict" /\ Truthy(data.summary.state)
         THEN data.summary.state
         ELSE data.status

\* C5: the polling loop of one batch ends in one of four ways: it returns
\* READY, fails with the provider-reported failure, fails with a transport
\* error, or raises the poll-timeout error once the time on the clock exceeds
\* the ceiling; while it polls on, the time on the clock was within the
\* ceiling when the loop last tested it.
C5_PollEndsAsListed ==
    /\ PollReturned =>
        \/ ReturnedReady
        \/ err \in {"BatchFailed", "HTTPError"}
        \/ err = "Timeout" /\ TimedOut(elapsed, timeout_sec)
    /\ pollPc = "polling" => ~TimedOut(elapsed, timeout_sec)

\* The loop of one batch ends, whatever the server answers: every turn that
\* polls on has slept, so the number of GETs is bounded by the ceiling.
PollBounded ==
    /\ elapsed >= sleeps
    /\ gets <= sleeps + 1
    /\ gets <= timeout_sec

\* C6: a 202 never ends the loop with READY and its body is not looked at (the
\* turn is decided by the status and the Retry-After header alone); a success
\* response whose parsed body contains batchItems makes the loop return that
\* body at once, without sleeping, whatever state field the body carries.
\* After [202, 202, 200-with-batchItems] the loop has slept twice, made three
\* GETs and returned the body with the items.
C6_ItemsReadyAnd202Running ==
    /\ [][Handling =>
            /\ resp.code = 202 =>
                /\ ~ReturnedReady'
                /\ ret' = NoBody
                /\ branch' \in {"still_202", "raise_int"}
                /\ branch' = Branch(Response(202, resp.retryAfter, NoBody))
            /\ (Success(resp) /\ WithItems(resp.body)) =>
                /\ ReturnedReady'
                /\ ret' = resp.body
                /\ sleeps' = sleeps /\ elapsed' = elapsed
                /\ gets' = gets]_vars
    /\ []((PollReturned /\ gets = 3 /\ n202 = 2 /\ branch = "batchItems") =>
            /\ ReturnedReady
            /\ sleeps = 2
            /\ ret.itemsKind # "absent")

\* The loop returned the items of a body that also reports Failed, after two
\* 202 answers.
C6_Witness ==
    /\ ReturnedReady
    /\ gets = 3 /\ n202 = 2 /\ sleeps = 2
    /\ branch = "batchItems"
    /\ ret.itemsKind = "list" /\ ret.items # <<>>
    /\ ret.status = "Failed"

\* C7: for a success response whose parsed body has no results collection the
\* state field (summary.state, else status) decides the turn: Running, Pending
\* or InProgress sleeps and polls again; Succeeded or Completed returns READY;
\* Failed or Error raises the batch-failed error with a snapshot of at most
\* 500 characters.
C7_StateFieldDecides ==
    [][(Handling /\ Success(resp) /\ resp.body.kind # "unparsable"
            /\ ~WithItems(resp.body)) =>
        /\ StateField(resp.body) \in RunningStates =>
            /\ StaysPolling
            /\ branch' = "running"
        /\ StateField(resp.body) \in DoneStates =>
            /\ ReturnedReady'
            /\ ret' = resp.body
        /\ StateField(resp.body) \in FailedStates =>
            /\ PollReturned'
            /\ err' = "BatchFailed"
            /\ snapshot' <= SnapshotLen
            /\ snapshot' = Min(resp.body.reprLen, SnapshotLen)]_vars

\* C8: a success response whose body cannot be parsed, or whose parsed body
\* (of any shape) has no results collection and no known state, is transient:
\* the loop sleeps 3 s and polls again, and can only fail with the timeout.
C8_TransientSleepsShort ==
    [][(Handling /\ Success(resp)
            /\ \/ resp.body.kind = "unparsable"
               \/ /\ ~WithItems(resp.body)
                  /\ StateField(resp.body) \notin
                        RunningStates \cup DoneStates \cup FailedStates) =>
        /\ StaysPolling
        /\ lastSleep' = ShortSleep
        /\ err' \in {"none", "Timeout"}]_vars

\* The Retry-After value is present and made of the digits 0..9 only.
NumericHint(h) ==
    h # NoHeader /\ h # <<>> /\ \A k \in 1..Len(h) : h[k] \in DecimalSet

\* C10: on every still-running turn (a 202, or a Running, Pending or
\* InProgress state) the loop sleeps max(floor, hint) clamped to 15 s, the
\* hint being the Retry-After value when present and numeric; the sleep is at
\* most 15 s and, for a floor of at most 15 s, at least the floor.
C10_SleepIsClampedMax ==
    [][(Handling
            /\ \/ resp.code = 202
               \/ /\ Success(resp) /\ resp.body.kind # "unparsable"
                  /\ ~WithItems(resp.body)
                  /\ StateField(resp.body) \in RunningStates) =>
        /\ sleeps' = sleeps + 1
        /\ lastSleep' =
            Min(Max(poll_interval,
                    IF NumericHint(resp.retryAfter)
                    THEN IntOf(resp.retryAfter) ELSE poll_interval),
                MaxTickSleep)
        /\ lastSleep' <= MaxTickSleep
        /\ poll_interval <= MaxTickSleep => lastSleep' >= poll_interval
        /\ elapsed' = elapsed + lastSleep']_vars

\* ------------------------------------- claims on _merge_params_into_url

\* The decoded value of the last segment of the query whose decoded key is k.
LastValue(query, k) ==
    LET d == parse_qsl(query)
        n == CHOOSE n \in 1..Len(d) :
                d[n].k = k /\ \A m \in (n + 1)..Len(d) : d[m].k # k
    IN d[n].v

KeyCount(query, k) ==
    Cardinality({n \in 1..Len(parse_qsl(query)) : parse_qsl(query)[n].k = k})

KeysOf(query) == {parse_qsl(query)[n].k : n \in 1..Len(parse_qsl(query))}

\* C9: merging the parameters into a URL a second time changes nothing; in
\* the merged query every key occurs once; a key the URL already has (also
\* with a blank value) keeps the URL's value, and a key the URL lacks gets the
\* parameter's value.
C9_MergeIdempotentExistingWins ==
    /\ Len(urls) >= 3 => urls[3] = urls[2]
    /\ Len(urls) >= 2 =>
        LET u == urls[1].query
            m == urls[2].query
            p == PollParams(envKey)
        IN /\ \A k \in KeysOf(m) : KeyCount(m, k) = 1
           /\ \A a, b \in 1..Len(m) : m[a].key = m[b].key => a = b
           /\ KeysOf(m) = KeysOf(u) \cup {p[n].k : n \in 1..Len(p)}
           /\ \A k \in KeysOf(u) : LastValue(m, k) = LastValue(u, k)
           /\ \A n \in 1..Len(p) :
                p[n].k \notin KeysOf(u) => LastValue(m, p[n].k) = p[n].v

\* Merged twice into a URL that has api-version with a blank value, written
\* percent-encoded, and lacks subscription-key.
C9_Witness ==
    /\ Len(urls) = 3
    /\ urls[1].query = <<Seg(<<"api", "%2D", "version">>, TRUE, <<>>)>>
    /\ Len(urls[2].query) = 2
    /\ urls[2].query[1] = Seg(API_VERSION_KEY, TRUE, <<>>)
    /\ urls[2].query[2].key = SUBSCRIPTION_KEY

\* ------------------------------------------------- claims on the whole run

\* Every batch of the eligible rows was submitted, polled to READY and passed
\* the count check.
AllBatchesDone ==
    /\ to_geocode # <<>>
    /\ i = CeilDiv(Len(to_geocode), BATCH_SIZE)
    /\ posts = i
    /\ Len(all_results) = Len(to_geocode)
    /\ err = "none"

\* C11: the input file is overwritten only after every batch was submitted,
\* polled to READY and passed the count check, and after the backup of the
\* original was written; a run in which a batch fails never writes the file
\* or a backup, whatever batches completed before.
C11_NoPartialOutput ==
    /\ [][/\ file' # file =>
                /\ AllBatchesDone
                /\ backup = file
                /\ LoadedFrame(backup) = df
                /\ writes' = writes + 1
          /\ writes' # writes => (pc = "write" /\ AllBatchesDone /\ backup = file)
          /\ backup' # backup => (AllBatchesDone /\ backup' = file /\ writes = 0)
          /\ err # "none" => (file' = file /\ backup' = backup)]_vars
    /\ [](err # "none" => (pc = "failed" /\ writes = 0 /\ backup = NoFile))
    /\ [](writes > 0 => (AllBatchesDone /\ LoadedFrame(backup) = df))

\* The second batch was reported failed after the first was accepted: nothing
\* was written.
C11_Witness ==
    /\ pc = "failed" /\ err = "BatchFailed"
    /\ i = 1 /\ posts = 2
    /\ Len(all_results) = BATCH_SIZE
    /\ writes = 0 /\ backup = NoFile
    /\ LoadedFrame(file) = df

\* The credential is missing from the environment or is the empty string.
NoCredential == envKey = NoKey \/ envKey = <<>>

\* C12: with a missing or empty credential the run aborts with the
\* configuration error before any POST or GET is issued, before the input is
\* read and before any file is written.
C12_NoKeyAbortsFirst ==
    NoCredential =>
        /\ pc \in {"load_key", "failed"}
        /\ pc = "failed" => err = "ConfigError"
        /\ posts = 0 /\ gets = 0 /\ pollPc = "idle" /\ poll_url = NoUrl
        /\ df = <<>> /\ to_geocode = <<>>
        /\ writes = 0 /\ backup = NoFile

\* The run has aborted on an empty credential, the sheet holding rows to
\* geocode.
C12_Witness ==
    /\ envKey = <<>>
    /\ pc = "failed" /\ err = "ConfigError"
    /\ Len(file.rows) = MaxRows
    /\ Eligible(file.rows[1])
    /\ posts = 0 /\ writes = 0

\* load_locations has returned.
Loaded == pc \notin {"load_key", "load_locations"} /\ err # "SchemaError"
            /\ err # "ConfigError"

\* C13: the eligible subset is exactly the rows whose trimmed address is
\* non-empty, in the original order: a row whose address is the empty string,
\* blanks only or a missing cell is not eligible, and no request is built for
\* it.
C13_EligibleIsNonEmptyAddress ==
    Loaded =>
        /\ to_geocode = SelectSeq(df, LAMBDA row : ~EmptyAddress(row))
        /\ \A k \in 1..Len(reqs) : reqs[k].query # <<>> /\ reqs[k].query # AsStr(NaNAddr)

\* The number of batches of the eligible subset.
NBatches == CeilDiv(Len(to_geocode), BATCH_SIZE)

\* C14: batches are handled one at a time and in order: at most one batch is
\* submitted and unfinished, and batch i+1 is posted only when batches 1..i
\* were polled to READY and passed the count check. Batch i+1 is the slice of
\* the eligible rows that starts right after the i * BATCH_SIZE rows of the
\* batches before it, has between 1 and BATCH_SIZE rows, and the batches are
\* ceil(n / BATCH_SIZE), so that together they are the eligible subset.
C14_BatchesInOrderOneAtATime ==
    /\ [](posts \in {i, i + 1})
    /\ []((pc = "poll") => (posts = i + 1 /\ i < NBatches))
    /\ []((pc = "submit") => (posts = i /\ i < NBatches /\ pollPc = "idle"))
    /\ []((pc \in {"merge", "backup", "write"}) => (posts = NBatches /\ i = NBatches))
    /\ [][posts' # posts =>
            /\ posts' = posts + 1
            /\ posts = i
            /\ Len(all_results) = i * BATCH_SIZE
            /\ Len(reqs') >= 1 /\ Len(reqs') <= BATCH_SIZE
            /\ Len(reqs') = Min(BATCH_SIZE, Len(to_geocode) - i * BATCH_SIZE)
            /\ \A k \in 1..Len(reqs') :
                reqs'[k].query =
                    Strip(AsStr(to_geocode[i * BATCH_SIZE + k][ADDR_COL]))]_vars
    /\ [][i' # i => (i' = i + 1 /\ pc = "poll" /\ pc' # "failed"
                     /\ branch' \in {"batchItems", "done_state"}
                     /\ nparsed' = Len(reqs))]_vars

\* The second, shorter batch is being polled after the first was accepted.
C14_Witness ==
    /\ pc = "poll" /\ posts = 2 /\ i = 1
    /\ Len(to_geocode) = BATCH_SIZE + 1
    /\ Len(reqs) = 1
    /\ reqs[1].query = Strip(AsStr(to_geocode[BATCH_SIZE + 1][ADDR_COL]))
    /\ Len(all_results) = BATCH_SIZE

\* The entries of the results collection of a returned body; none when the
\* collection is absent, null or empty.
EntriesOf(body) ==
    IF body.kind = "dict" /\ body.itemsKind = "list" THEN body.items ELSE <<>>

\* The entry has a non-empty best-match list.
Matched(e) == e.kind = "obj" /\ e.response = "obj" /\ e.results = "list"

\* The record an entry gives.
RecordOf(e) ==
    IF Matched(e)
    THEN [lat |-> IF e.position = "obj" THEN e.lat ELSE NULL,
          lon |-> IF e.position = "obj" THEN e.lon ELSE NULL,
          status |-> IF e.type # NULL /\ e.type # "" THEN e.type
                     ELSE IF e.entityType # NULL /\ e.entityType # ""
                          THEN e.entityType
                          ELSE "Matched",
          confidence |-> e.score]
    ELSE [lat |-> NULL, lon |-> NULL, status |-> "No Match",
          confidence |-> NULL]

\* The positions in df of the submitted rows.
SubmittedRows == {RowOf(k) : k \in 1..Len(to_geocode)}

\* C15: the records of an accepted batch are those of the entries of the
\* returned body, in the entries' order, appended after those of the batches
\* before it, so record j of batch i is at position i * BATCH_SIZE + j of
\* all_results; after all batches succeed that record is attached to the
\* eligible row at the same position, that is to the row of df with that
\* row's identifier. A row that was not submitted gets no result and no two
\* records go to the same row.
C15_ResultGoesToItsRow ==
    /\ [][all_results' # all_results =>
            /\ SubSeq(all_results', 1, Len(all_results)) = all_results
            /\ Len(all_results) = i * BATCH_SIZE
            /\ Len(all_results') = i * BATCH_SIZE + Len(reqs)
            /\ \A k \in 1..Len(reqs) :
                all_results'[i * BATCH_SIZE + k] = RecordOf(EntriesOf(ret')[k])]_vars
    /\ [](MergeDone =>
            /\ \A k \in 1..Len(to_geocode) :
                /\ df[RowOf(k)]._rowid = to_geocode[k]._rowid
                /\ df[RowOf(k)].FullAddress = to_geocode[k].FullAddress
                /\ \A col \in ResultColSet :
                    df[RowOf(k)][col] = NULL =>
                        merged[RowOf(k)][col] = ResultField(all_results[k], col)
            /\ \A a, b \in 1..Len(to_geocode) : RowOf(a) = RowOf(b) => a = b
            /\ \A r \in (1..Len(df)) \ SubmittedRows :
                \A col \in ResultColSet : merged[r][col] = df[r][col])

\* Two batches succeeded; the row before the batch border holds a match and
\* the row after it, the only one of the second batch, holds "No Match".
C15_Witness ==
    /\ pc = "done" /\ writes = 1 /\ i = 2
    /\ Len(to_geocode) = BATCH_SIZE + 1
    /\ all_results[BATCH_SIZE].status = "Point Address"
    /\ all_results[BATCH_SIZE + 1].status = "No Match"
    /\ merged[RowOf(BATCH_SIZE)].MatchStatus = "Point Address"
    /\ merged[RowOf(BATCH_SIZE + 1)].MatchStatus = "No Match"
    /\ merged[RowOf(BATCH_SIZE + 1)].Lat = NULL

\* The value of the header with one of these names, however it is spelled;
\* NoUrl when the answer has no such header.
HeaderNamed(hs, names) ==
    IF \E n \in 1..Len(hs) : hs[n].name \in names
    THEN hs[CHOOSE n \in 1..Len(hs) : hs[n].name \in names].value
    ELSE NoUrl

\* The continuation URL the answer designates: Location when present and
\* non-empty, else Operation-Location.
Continuation(hs) ==
    IF UrlTruthy(HeaderNamed(hs, LocationNames))
    THEN HeaderNamed(hs, LocationNames)
    ELSE HeaderNamed(hs, OpLocationNames)

\* The redirects the session may have followed before the answer it returns.
RedirectsFollowed ==
    {pre \in UNION {[1..n -> PostResponses] : n \in 0..MaxRedirects} :
        \A k \in 1..Len(pre) : IsRedirect(pre[k])}

\* C16: a submission yields the URL of the Location header of the answer the
\* session returns when that header is present and non-empty, else the URL of
\* the Operation-Location header, whatever the case of the header names; with
\* neither URL it fails with the missing-continuation error, and with an
\* error status it fails with the transport error. A failed submission issues
\* no poll GET and ends the run.
C16_ContinuationFromHeaders ==
    /\ []((pc = "submit" /\ posts = 0) =>
            \A pre \in RedirectsFollowed, c \in PostCodes, hs \in HeaderSets :
                LET answers == pre \o <<PostOf(c, hs)>>
                IN ~IsRedirect(PostOf(c, hs)) =>
                    /\ c >= 400 => SubmitOutcome(answers) = "HTTPError"
                    /\ (c < 400 /\ UrlTruthy(Continuation(hs))) =>
                        /\ SubmitOutcome(answers) = "ok"
                        /\ OpLoc(session_post(answers)) = Continuation(hs)
                    /\ (c < 400 /\ ~UrlTruthy(Continuation(hs))) =>
                        SubmitOutcome(answers) = "MissingLocation")
    /\ [][pc = "submit" =>
            /\ posts' = posts + 1
            /\ \/ /\ pc' = "poll" /\ err' = "none"
                  /\ UrlTruthy(op_loc') /\ pollPc' = "polling" /\ gets' = 0
               \/ /\ pc' = "failed"
                  /\ err' \in {"HTTPError", "MissingLocation", "TooManyRedirects"}
                  /\ gets' = gets /\ pollPc' = "idle" /\ poll_url' = poll_url
                  /\ op_loc' = op_loc]_vars
    /\ [](err = "MissingLocation" =>
            (pc = "failed" /\ pollPc = "idle" /\ writes = 0 /\ posts = i + 1))

\* The POST of the second batch came back without a continuation URL: the
\* run has ended and no GET was made for that batch.
C16_Witness ==
    /\ pc = "failed" /\ err = "MissingLocation"
    /\ posts = 2 /\ i = 1
    /\ pollPc = "idle"
    /\ Len(reqs) = 1 /\ Len(all_results) = BATCH_SIZE
    /\ writes = 0

\* ------------------------------------------------ claims on parse_results

\* C17: parsing a returned body gives one record per entry of batchItems, in
\* the entries' order, and never fails: no match gives the "No Match" record,
\* a match gives the first match's lat and lon (null when the position or the
\* coordinate is absent or null), the first non-empty of type, entityType and
\* "Matched", and the score; no results collection gives the empty list.
C17_OneRecordPerEntry ==
    [][ReadyTurn =>
        /\ err' # "AttributeError"
        /\ nparsed' = Len(EntriesOf(ret'))
        /\ nparsed' = Len(reqs) =>
            all_results' =
                all_results \o [k \in 1..Len(EntriesOf(ret')) |->
                                    RecordOf(EntriesOf(ret')[k])]]_vars

\* ------------------------------------------- claims on polling in the run

\* The step is a turn of the poll loop inside main: a GET and its handling.
PollTurn == pc = "poll" /\ gets' = gets + 1

\* C18: a poll response with a 4xx or 5xx status, a throttling status
\* included, is not retried: the loop ends at once, without sleeping, with
\* the transport error, and the run aborts. The loop polls again only after
\* a 202, a Running, Pending or InProgress state, an unparsable body, or an
\* unknown or absent state.
C18_ErrorStatusNotRetried ==
    /\ [][PollTurn =>
            /\ resp'.code >= 400 =>
                /\ pc' = "failed" /\ err' = "HTTPError"
                /\ pollPc' = "idle"
                /\ sleeps' = sleeps /\ elapsed' = elapsed
                /\ posts' = posts /\ all_results' = all_results
            /\ pollPc' = "polling" =>
                \/ resp'.code = 202
                \/ /\ Success(resp')
                   /\ \/ resp'.body.kind = "unparsable"
                      \/ /\ ~WithItems(resp'.body)
                         /\ StateField(resp'.body) \notin
                                DoneStates \cup FailedStates]_vars
    /\ []((err = "HTTPError" /\ resp.code >= 400) =>
            (pc = "failed" /\ writes = 0 /\ backup = NoFile))

\* The poll of the second batch was throttled with a Retry-After hint and a
\* Running body: the run ended on the first GET of that batch.
C18_Witness ==
    /\ pc = "failed" /\ err = "HTTPError"
    /\ resp.code = 429 /\ resp.retryAfter = <<"5">>
    /\ branch = "raise_for_status"
    /\ i = 1 /\ posts = 2 /\ gets = 1 /\ sleeps = 0
    /\ writes = 0

\* C19: every posted batch has at least one request, so a poll that returns
\* READY with a body that has no results collection, or an empty one, ends
\* the run: nothing is parsed, the count check fails with the
\* result-count-mismatch error, and no file is written.
C19_ReadyWithoutItemsAborts ==
    /\ [](posts > 0 => Len(reqs) >= 1)
    /\ [][(ReadyTurn /\ EntriesOf(ret') = <<>>) =>
            /\ ret' = resp'.body
            /\ nparsed' = 0
            /\ pc' = "failed" /\ err' = "ResultCountMismatch"
            /\ all_results' = all_results /\ i' = i
            /\ file' = file /\ backup' = backup /\ writes' = writes]_vars
    /\ []((err = "ResultCountMismatch" /\ nparsed = 0) =>
            (pc = "failed" /\ writes = 0 /\ backup = NoFile))

\* The second batch was reported Succeeded by a body without batchItems: the
\* run ended with the count mismatch.
C19_Witness ==
    /\ pc = "failed" /\ err = "ResultCountMismatch"
    /\ branch = "done_state"
    /\ ret = StateBody("Succeeded")
    /\ nparsed = 0 /\ Len(reqs) = 1
    /\ i = 1 /\ posts = 2 /\ Len(all_results) = BATCH_SIZE
    /\ writes = 0

\* No row of the input sheet has a non-empty address.
NoAddressToGeocode ==
    /\ ADDR_COL \in file.cols
    /\ \A r \in 1..Len(file.rows) : EmptyAddress(file.rows[r])

\* C20: when no row has a non-empty address the run ends successfully and
\* without effect: no POST, no GET, no backup, and the input file is not
\* rewritten.
C20_NothingToGeocodeNoEffect ==
    (NoAddressToGeocode /\ ~NoCredential) =>
        /\ pc \in {"load_key", "load_locations", "done"}
        /\ err = "none"
        /\ to_geocode = <<>>
        /\ posts = 0 /\ gets = 0 /\ pollPc = "idle"
        /\ backup = NoFile /\ writes = 0

====
